---- MODULE Spec2Model ----
(***************************************************************************)
(* Model of scripts/generate-map.py: validation of the input frames,       *)
(* classification of parcels by zoning, selection of dwelling buildings    *)
(* and the per-parcel computation of the area where chickens may be kept   *)
(* (calculate_allowed_areas); and of scripts/download-data.py, which       *)
(* fetches the datasets into the data directory.                           *)
(*                                                                         *)
(* Geometry.  The projected plane is a strip of NumCells cells, each       *)
(* CellFeet long; a geometry is the set of cells it covers, so that        *)
(* union, difference, intersects and within are the set operations and     *)
(* the area of a geometry is the number of its cells.  Boundary contact    *)
(* without overlap has zero area and is not represented.                   *)
(*                                                                         *)
(* Data frames are sequences of records (rows, in row order); a Python     *)
(* dict is a function whose DOMAIN is the set of its keys.  A string the   *)
(* code inspects character by character is a sequence of one-character     *)
(* strings; a missing value (NaN) of such a column is NaNStr.  The field    *)
(* valid of a row tells whether the overlay operations accept its          *)
(* geometry; on a geometry that is not valid they raise.                   *)
(***************************************************************************)
EXTENDS Integers, Sequences, FiniteSets, TLC

VARIABLES
    land_use_df,                  \* zoning lookup rows [ZONING, DESCRIPTION]
    parcels_gdf,                  \* parcel rows [OBJECTID, ZONING, geometry, valid]
    buildings_gdf,                \* building rows [FACILITYID, Use (column USE), UNITS, geometry, valid]
    pc,                           \* position of main()
    residential_parcels_gdf,      \* result of identify_residential_parcels
    non_residential_parcels_gdf,  \* result of identify_residential_parcels
    dwelling_buildings_gdf,       \* result of identify_dwelling_buildings
    parcel_to_dwellings,          \* dict OBJECTID -> set of FACILITYID
    parcel_to_has_multiunit,      \* dict OBJECTID -> bool
    is_multiple_occupancy,        \* the flag of line 366, per parcel of the groupby
    parcel_to_prohibited_buffers, \* dict OBJECTID -> rows of dwelling_buffers_gdf
    parcel_to_buildings,          \* dict OBJECTID -> rows of all_buildings_gdf
    results,                      \* the list the parcel loop appends to
    idx,                          \* position of the parcel loop
    results_gdf,                  \* the frame calculate_allowed_areas returns
    columns,                      \* the column names of the frames read_data returns
    chicken_zones_shp,            \* output/chicken_zones.shp on disk
    data_dir,                     \* download-data.py: what the data directory holds, per dataset
    download_pc,                  \* download-data.py: position of main()
    dataset_idx,                  \* download-data.py: position of the loop over DATASETS
    attempted,                    \* the datasets download_dataset was called for, this run
    skipped,                      \* the datasets skipped as existing, this run
    errors,                       \* the datasets whose error was printed, this run
    completed,                    \* the datasets some run downloaded (and extracted) in full
    run                           \* the number of runs of download-data.py started

map_vars == <<land_use_df, parcels_gdf, buildings_gdf, pc, residential_parcels_gdf,
              non_residential_parcels_gdf, dwelling_buildings_gdf, parcel_to_dwellings,
              parcel_to_has_multiunit, is_multiple_occupancy,
              parcel_to_prohibited_buffers, parcel_to_buildings, results, idx,
              results_gdf, columns, chicken_zones_shp>>

download_vars == <<data_dir, download_pc, dataset_idx, attempted, skipped, errors,
                   completed, run>>

vars == <<map_vars, download_vars>>

(***************************************************************************)
(* Bounds of the model.                                                    *)
(***************************************************************************)
NumCells == 6

MaxFootprint == 2

MaxUnits == 2

MaxLookupRows == 2

(***************************************************************************)
(* Geometry.                                                               *)
(***************************************************************************)
BufferFeet == 200

CellFeet == BufferFeet \div 2

World == 0 .. (NumCells - 1)

Interval(a, b) == {c \in World : a <= c /\ c <= b}

Abs(x) == IF x < 0 THEN -x ELSE x

Buffer(g) == {c \in World : \E x \in g : Abs(c - x) * CellFeet <= BufferFeet}

Within(a, b) == a # {} /\ a \subseteq b

Intersects(a, b) == a \cap b # {}

Difference(a, b) == a \ b

RECURSIVE UnionAll(_)
UnionAll(gs) ==
    IF gs = {} THEN {}
    ELSE LET g == CHOOSE x \in gs : TRUE IN g \cup UnionAll(gs \ {g})

(***************************************************************************)
(* Strings.                                                                *)
(***************************************************************************)
NaNStr == <<"NaN">>

UpperToLower ==
    ("A" :> "a") @@
    ("B" :> "b") @@
    ("C" :> "c") @@
    ("D" :> "d") @@
    ("E" :> "e") @@
    ("F" :> "f") @@
    ("G" :> "g") @@
    ("H" :> "h") @@
    ("I" :> "i") @@
    ("J" :> "j") @@
    ("K" :> "k") @@
    ("L" :> "l") @@
    ("M" :> "m") @@
    ("N" :> "n") @@
    ("O" :> "o") @@
    ("P" :> "p") @@
    ("Q" :> "q") @@
    ("R" :> "r") @@
    ("S" :> "s") @@
    ("T" :> "t") @@
    ("U" :> "u") @@
    ("V" :> "v") @@
    ("W" :> "w") @@
    ("X" :> "x") @@
    ("Y" :> "y") @@
    ("Z" :> "z")

\* str.lower() of one character
Lower(c) == IF c \in DOMAIN UpperToLower THEN UpperToLower[c] ELSE c

\* Series.str.replace(" ", "", regex=False); NaN stays NaN
StrReplaceSpaces(s) ==
    IF s = NaNStr THEN NaNStr ELSE SelectSeq(s, LAMBDA c : c # " ")

\* Series.str.contains(needle, case=False, na=False)
StrContains(s, needle) ==
    IF s = NaNStr THEN FALSE
    ELSE \E i \in 1..(Len(s) - Len(needle) + 1) :
            \A j \in 1..Len(needle) : Lower(s[i + j - 1]) = Lower(needle[j])

Residential == <<"r","e","s","i","d","e","n","t","i","a","l">>

(***************************************************************************)
(* Frames.                                                                 *)
(***************************************************************************)
RECURSIVE Concat(_)
Concat(ss) == IF ss = <<>> THEN <<>> ELSE Head(ss) \o Concat(Tail(ss))

Rows(df) == 1..Len(df)

\* dict.get(key, default)
Get(d, k, default) == IF k \in DOMAIN d THEN d[k] ELSE default

EmptyDict == [k \in {} |-> {}]

(***************************************************************************)
(* prepare_data                                                            *)
(***************************************************************************)
\* The columns of buildings-use.csv that line 116 selects
UseColumns == {"FACILITYID", "UUSE", "SIZE", "UNITS", "OWNERSHIP"}

\* frame.crs of a frame without a geometry column raises (lines 88-93)
CrsUndefined(c) ==
    \/ "geometry" \notin c.boundary
    \/ "geometry" \notin c.parcels
    \/ "geometry" \notin c.buildings

\* buildings_gdf.merge(buildings_use_df[[...]], on="FACILITYID", how="left")
\* raises a KeyError when a selected column or the key is absent
MergeKeyError(c) ==
    \/ ~(UseColumns \subseteq c.buildings_use)
    \/ "FACILITYID" \notin c.buildings

\* the columns of buildings_gdf after the merge and rename(columns={"UUSE": "USE"})
MergedColumns(c) ==
    LET merged == c.buildings \cup UseColumns
    IN  (merged \ {"UUSE"}) \cup {"USE"}

\* the checks that raise ValueError
ValidationError(c) ==
    \/ "geometry" \notin c.parcels
    \/ "geometry" \notin MergedColumns(c)
    \/ "FACILITYID" \notin MergedColumns(c)
    \/ "USE" \notin MergedColumns(c)
    \/ "geometry" \notin c.boundary

\* Variant: only the geometry columns are looked at
PrepareDataFailsGeometryOnly(c) == CrsUndefined(c)

\* prepare_data leaves by an exception
PrepareDataFails(c) == CrsUndefined(c) \/ MergeKeyError(c) \/ ValidationError(c)

\* The frames of the model hold the buildings as merged with their use data
PrepareData ==
    /\ pc = "prepare_data"
    /\ ~PrepareDataFails(columns)
    /\ pc' = "identify_residential_parcels"
    /\ UNCHANGED <<land_use_df, parcels_gdf, buildings_gdf, residential_parcels_gdf,
                   non_residential_parcels_gdf, dwelling_buildings_gdf,
                   parcel_to_dwellings, parcel_to_has_multiunit, is_multiple_occupancy,
                   parcel_to_prohibited_buffers, parcel_to_buildings, results, idx,
                   results_gdf>>
    /\ UNCHANGED <<columns, chicken_zones_shp>>
    /\ UNCHANGED download_vars

\* Nothing in main catches the exception: the run ends
PrepareDataRaises ==
    /\ pc = "prepare_data"
    /\ PrepareDataFails(columns)
    /\ pc' = "raised"
    /\ UNCHANGED <<land_use_df, parcels_gdf, buildings_gdf, residential_parcels_gdf,
                   non_residential_parcels_gdf, dwelling_buildings_gdf,
                   parcel_to_dwellings, parcel_to_has_multiunit, is_multiple_occupancy,
                   parcel_to_prohibited_buffers, parcel_to_buildings, results, idx,
                   results_gdf>>
    /\ UNCHANGED <<columns, chicken_zones_shp>>
    /\ UNCHANGED download_vars

(***************************************************************************)
(* identify_residential_parcels                                            *)
(***************************************************************************)
\* Variant: an inner merge, which drops a parcel without a matching lookup row
MergeRowInner(p, lookup) ==
    LET matches == SelectSeq(lookup,
                     LAMBDA l : StrReplaceSpaces(l.ZONING) = StrReplaceSpaces(p.ZONING))
    IN  [m \in 1..Len(matches) |->
            [OBJECTID |-> p.OBJECTID, ZONING |-> p.ZONING, geometry |-> p.geometry,
             valid |-> p.valid, DESCRIPTION |-> matches[m].DESCRIPTION]]

\* parcels_normalized.merge(land_use_normalized[...], on="ZONING_NORMALIZED", how="left")
MergeRow(p, lookup) ==
    LET matches == SelectSeq(lookup,
                     LAMBDA l : StrReplaceSpaces(l.ZONING) = StrReplaceSpaces(p.ZONING))
    IN  IF matches = <<>>
        THEN << [OBJECTID |-> p.OBJECTID, ZONING |-> p.ZONING, geometry |-> p.geometry,
                 valid |-> p.valid, DESCRIPTION |-> NaNStr] >>
        ELSE [m \in 1..Len(matches) |->
                [OBJECTID |-> p.OBJECTID, ZONING |-> p.ZONING, geometry |-> p.geometry,
                 valid |-> p.valid, DESCRIPTION |-> matches[m].DESCRIPTION]]

parcels_with_use(parcels, lookup) ==
    Concat([i \in 1..Len(parcels) |-> MergeRow(parcels[i], lookup)])

\* Variant: the description is searched as written, letter case and all
residential_mask_case_sensitive(row) ==
    /\ row.DESCRIPTION # NaNStr
    /\ \E i \in 1..(Len(row.DESCRIPTION) - Len(Residential) + 1) :
          \A j \in 1..Len(Residential) : row.DESCRIPTION[i + j - 1] = Residential[j]

residential_mask(row) == StrContains(row.DESCRIPTION, Residential)

IdentifyResidentialParcels ==
    /\ pc = "identify_residential_parcels"
    /\ LET merged == parcels_with_use(parcels_gdf, land_use_df) IN
         /\ residential_parcels_gdf' = SelectSeq(merged, residential_mask)
         /\ non_residential_parcels_gdf' =
               SelectSeq(merged, LAMBDA row : ~residential_mask(row))
    /\ pc' = "identify_dwelling_buildings"
    /\ UNCHANGED <<land_use_df, parcels_gdf, buildings_gdf, dwelling_buildings_gdf,
                   parcel_to_dwellings, parcel_to_has_multiunit, is_multiple_occupancy,
                   parcel_to_prohibited_buffers, parcel_to_buildings, results, idx,
                   results_gdf>>
    /\ UNCHANGED <<columns, chicken_zones_shp>>
    /\ UNCHANGED download_vars

(***************************************************************************)
(* identify_dwelling_buildings                                             *)
(***************************************************************************)
IsDwellingUse(b) == b.Use \in {"Household", "Dormitory"}

IdentifyDwellingBuildings ==
    /\ pc = "identify_dwelling_buildings"
    /\ dwelling_buildings_gdf' = SelectSeq(buildings_gdf, IsDwellingUse)
    /\ pc' = "calculate_allowed_areas"
    /\ UNCHANGED <<land_use_df, parcels_gdf, buildings_gdf, residential_parcels_gdf,
                   non_residential_parcels_gdf, parcel_to_dwellings,
                   parcel_to_has_multiunit, is_multiple_occupancy,
                   parcel_to_prohibited_buffers, parcel_to_buildings, results, idx,
                   results_gdf>>
    /\ UNCHANGED <<columns, chicken_zones_shp>>
    /\ UNCHANGED download_vars

(***************************************************************************)
(* calculate_allowed_areas: the lookups built before the parcel loop       *)
(***************************************************************************)
\* Variant: a dwelling is joined to every parcel its footprint overlaps
dwellings_on_parcels_intersects(dw, res) ==
    {ij \in Rows(dw) \X Rows(res) : Intersects(dw[ij[1]].geometry, res[ij[2]].geometry)}

\* gpd.sjoin(dwelling_buildings_gdf, residential_parcels_gdf, predicate="within"):
\* pairs <<row of dwellings, row of parcels>>
dwellings_on_parcels(dw, res) ==
    {ij \in Rows(dw) \X Rows(res) : Within(dw[ij[1]].geometry, res[ij[2]].geometry)}

\* groupby on the parcel id of a join: the keys, and the left rows of one key
JoinedParcelIds(pairs, res) == {res[ij[2]].OBJECTID : ij \in pairs}

GroupOf(pairs, res, pid) == {ij[1] : ij \in {x \in pairs : res[x[2]].OBJECTID = pid}}

\* dwellings_on_parcels.groupby("OBJECTID_right")["FACILITYID"].apply(set).to_dict()
ParcelToDwellings(on_parcels, dw, res) ==
    [pid \in JoinedParcelIds(on_parcels, res) |->
        {dw[i].FACILITYID : i \in GroupOf(on_parcels, res, pid)}]

\* group["UNITS"] > 1: a comparison with NaN is False
UnitsGt(u, n) == u # <<>> /\ u[1] > n

\* Variant: a dormitory is judged by its recorded units alone
check_multiunit_units_only(group) == \E b \in group : UnitsGt(b.UNITS, 1)

check_multiunit(group) ==
    LET has_dormitory == \E b \in group : b.Use = "Dormitory"
        has_multiunit == \E b \in group : UnitsGt(b.UNITS, 1)
    IN  has_dormitory \/ has_multiunit

\* dwellings_on_parcels.groupby("OBJECTID_right").apply(check_multiunit).to_dict()
ParcelToHasMultiunit(on_parcels, dw, res) ==
    [pid \in JoinedParcelIds(on_parcels, res) |->
        check_multiunit({dw[i] : i \in GroupOf(on_parcels, res, pid)})]

\* dwelling_buildings_gdf.geometry.buffer(200, cap_style="round")
dwelling_buffers_gdf(dw) ==
    [i \in Rows(dw) |-> [FACILITYID |-> dw[i].FACILITYID,
                         geometry |-> Buffer(dw[i].geometry)]]

\* Variant: the join keeps only the buffers wholly within a parcel
buffers_within_parcels(buffers, res) ==
    {ij \in Rows(buffers) \X Rows(res) :
        Within(buffers[ij[1]].geometry, res[ij[2]].geometry)}

\* gpd.sjoin(dwelling_buffers_gdf, parcels_for_join, predicate="intersects")
buffers_intersecting_parcels(buffers, res) ==
    {ij \in Rows(buffers) \X Rows(res) :
        Intersects(buffers[ij[1]].geometry, res[ij[2]].geometry)}

IsMultipleOccupancy(num_dwellings_on_parcel, has_multiunit_building) ==
    (num_dwellings_on_parcel > 1) \/ has_multiunit_building

\* the flag of one iteration of the loop over the groups of buffers
MultipleOccupancyOf(p2d, p2m, pid) ==
    IsMultipleOccupancy(Cardinality(Get(p2d, pid, {})), Get(p2m, pid, FALSE))

\* Variant: the own dwellings' buffers are dropped whatever the occupancy
BufferIndicesNotOwn(buffers, group, dwellings_on_this_parcel, multiple) ==
    {i \in group : buffers[i].FACILITYID \notin dwellings_on_this_parcel}

\* Variant: the own dwelling's buffer is kept whatever the occupancy
BufferIndicesAll(buffers, group, dwellings_on_this_parcel, multiple) == group

\* buffer_indices of one iteration: rows of dwelling_buffers_gdf
BufferIndices(buffers, group, dwellings_on_this_parcel, multiple) ==
    IF ~multiple
    THEN {i \in group : buffers[i].FACILITYID \notin dwellings_on_this_parcel}
    ELSE group

\* the loop over buffers_intersecting_parcels.groupby(parcel_id_col)
ParcelToProhibitedBuffers(intersecting, buffers, res, p2d, flags) ==
    LET sel(pid) == BufferIndices(buffers, GroupOf(intersecting, res, pid),
                                  Get(p2d, pid, {}), flags[pid])
    IN  [pid \in {q \in JoinedParcelIds(intersecting, res) : sel(q) # {}} |-> sel(pid)]

\* Variant: the join keeps only the buildings wholly within a parcel
buildings_on_parcels_within(all, res) ==
    {ij \in Rows(all) \X Rows(res) : Within(all[ij[1]].geometry, res[ij[2]].geometry)}

\* gpd.sjoin(all_buildings_gdf, residential_parcels_gdf, predicate="intersects")
buildings_on_parcels(all, res) ==
    {ij \in Rows(all) \X Rows(res) : Intersects(all[ij[1]].geometry, res[ij[2]].geometry)}

ParcelToBuildings(on_parcels, res) ==
    [pid \in JoinedParcelIds(on_parcels, res) |-> GroupOf(on_parcels, res, pid)]

BuildLookups ==
    /\ pc = "calculate_allowed_areas"
    /\ LET dw == dwelling_buildings_gdf
           res == residential_parcels_gdf
           on_parcels == dwellings_on_parcels(dw, res)
           buffers == dwelling_buffers_gdf(dw)
           intersecting == buffers_intersecting_parcels(buffers, res)
           p2d == ParcelToDwellings(on_parcels, dw, res)
           p2m == ParcelToHasMultiunit(on_parcels, dw, res)
           flags == [pid \in JoinedParcelIds(intersecting, res) |->
                        MultipleOccupancyOf(p2d, p2m, pid)]
       IN  /\ parcel_to_dwellings' = p2d
           /\ parcel_to_has_multiunit' = p2m
           /\ is_multiple_occupancy' = flags
           /\ parcel_to_prohibited_buffers' =
                 ParcelToProhibitedBuffers(intersecting, buffers, res, p2d, flags)
           /\ parcel_to_buildings' =
                 ParcelToBuildings(buildings_on_parcels(buildings_gdf, res), res)
    /\ results' = <<>>
    /\ idx' = 1
    /\ pc' = "parcel_loop"
    /\ UNCHANGED <<land_use_df, parcels_gdf, buildings_gdf, residential_parcels_gdf,
                   non_residential_parcels_gdf, dwelling_buildings_gdf, results_gdf>>
    /\ UNCHANGED <<columns, chicken_zones_shp>>
    /\ UNCHANGED download_vars

(***************************************************************************)
(* calculate_allowed_areas: one iteration of the loop over the parcels     *)
(***************************************************************************)
\* Variant: any building on the parcel counts as a household
has_any_building(parcel) == parcel.OBJECTID \in DOMAIN parcel_to_buildings

has_household(parcel) == parcel.OBJECTID \in DOMAIN parcel_to_dwellings

\* Step 1: the parcel less the union of the buffers kept for it
AfterBuffers(parcel, prohibited_buffers) ==
    IF prohibited_buffers # {}
    THEN Difference(parcel.geometry,
           UnionAll({dwelling_buffers_gdf(dwelling_buildings_gdf)[i].geometry :
                        i \in prohibited_buffers}))
    ELSE parcel.geometry

\* Variant: the footprints are not subtracted
AfterBuildingsSkipped(allowed_geom, buildings_on_this_parcel) == allowed_geom

\* Step 2: less the union of the footprints of the buildings on the parcel
AfterBuildings(allowed_geom, buildings_on_this_parcel) ==
    IF buildings_on_this_parcel # {}
    THEN Difference(allowed_geom,
           UnionAll({buildings_gdf[i].geometry : i \in buildings_on_this_parcel}))
    ELSE allowed_geom

AllowedGeom(parcel) ==
    IF ~has_household(parcel)
    THEN Difference(parcel.geometry, parcel.geometry)
    ELSE AfterBuildings(
           AfterBuffers(parcel, Get(parcel_to_prohibited_buffers, parcel.OBJECTID, {})),
           Get(parcel_to_buildings, parcel.OBJECTID, {}))

\* Variant: the prohibited area is what was subtracted, not clipped to the parcel
ProhibitedGeomUnclipped(parcel, allowed_geom) ==
    IF ~has_household(parcel)
    THEN parcel.geometry
    ELSE UnionAll({dwelling_buffers_gdf(dwelling_buildings_gdf)[i].geometry :
                      i \in Get(parcel_to_prohibited_buffers, parcel.OBJECTID, {})})
           \cup UnionAll({buildings_gdf[i].geometry :
                            i \in Get(parcel_to_buildings, parcel.OBJECTID, {})})

ProhibitedGeom(parcel, allowed_geom) ==
    IF ~has_household(parcel)
    THEN parcel.geometry
    ELSE Difference(parcel.geometry, allowed_geom)

\* The overlay operations (difference, union_all) raise a GEOSException on a
\* geometry that is not valid; nothing in calculate_allowed_areas or main
\* catches it.
OverlayRaises(parcel) ==
    \/ ~parcel.valid
    \/ /\ has_household(parcel)
       /\ \E i \in Get(parcel_to_buildings, parcel.OBJECTID, {}) : ~buildings_gdf[i].valid

ProcessParcel ==
    /\ pc = "parcel_loop"
    /\ idx <= Len(residential_parcels_gdf)
    /\ LET parcel == residential_parcels_gdf[idx] IN
         /\ ~OverlayRaises(parcel)
         /\ results' = Append(results,
               [parcel_id |-> parcel.OBJECTID,
                geometry |-> parcel.geometry,
                allowed_geometry |-> AllowedGeom(parcel),
                prohibited_geometry |-> ProhibitedGeom(parcel, AllowedGeom(parcel))])
    /\ idx' = idx + 1
    /\ UNCHANGED <<land_use_df, parcels_gdf, buildings_gdf, pc, residential_parcels_gdf,
                   non_residential_parcels_gdf, dwelling_buildings_gdf,
                   parcel_to_dwellings, parcel_to_has_multiunit, is_multiple_occupancy,
                   parcel_to_prohibited_buffers, parcel_to_buildings, results_gdf>>
    /\ UNCHANGED <<columns, chicken_zones_shp>>
    /\ UNCHANGED download_vars

\* The exception leaves calculate_allowed_areas and main: no frame is returned
ProcessParcelRaises ==
    /\ pc = "parcel_loop"
    /\ idx <= Len(residential_parcels_gdf)
    /\ OverlayRaises(residential_parcels_gdf[idx])
    /\ pc' = "raised"
    /\ UNCHANGED <<land_use_df, parcels_gdf, buildings_gdf, residential_parcels_gdf,
                   non_residential_parcels_gdf, dwelling_buildings_gdf,
                   parcel_to_dwellings, parcel_to_has_multiunit, is_multiple_occupancy,
                   parcel_to_prohibited_buffers, parcel_to_buildings, results, idx,
                   results_gdf>>
    /\ UNCHANGED <<columns, chicken_zones_shp>>
    /\ UNCHANGED download_vars

\* gpd.GeoDataFrame([], crs=...) has no column: with no residential parcel
\* the frame cannot be built with a crs (line 454), and reading its column
\* allowed_geometry (line 460) raises a KeyError
ReturnResultsRaises ==
    /\ pc = "parcel_loop"
    /\ idx > Len(residential_parcels_gdf)
    /\ results = <<>>
    /\ pc' = "raised"
    /\ UNCHANGED <<land_use_df, parcels_gdf, buildings_gdf, residential_parcels_gdf,
                   non_residential_parcels_gdf, dwelling_buildings_gdf,
                   parcel_to_dwellings, parcel_to_has_multiunit, is_multiple_occupancy,
                   parcel_to_prohibited_buffers, parcel_to_buildings, results, idx,
                   results_gdf>>
    /\ UNCHANGED <<columns, chicken_zones_shp>>
    /\ UNCHANGED download_vars

\* results_gdf = gpd.GeoDataFrame(results, ...); return results_gdf
ReturnResults ==
    /\ pc = "parcel_loop"
    /\ idx > Len(residential_parcels_gdf)
    /\ results # <<>>
    /\ results_gdf' = results
    /\ pc' = "done"
    /\ UNCHANGED <<land_use_df, parcels_gdf, buildings_gdf, residential_parcels_gdf,
                   non_residential_parcels_gdf, dwelling_buildings_gdf,
                   parcel_to_dwellings, parcel_to_has_multiunit, is_multiple_occupancy,
                   parcel_to_prohibited_buffers, parcel_to_buildings, results, idx>>
    /\ UNCHANGED <<columns, chicken_zones_shp>>
    /\ UNCHANGED download_vars

(***************************************************************************)
(* main after calculate_allowed_areas, and a later run of the script       *)
(***************************************************************************)
\* Variant: the rows are added to those the file already holds
ExportedRowsAppended(file, gdf) == file.rows \o gdf

\* export_gdf.to_file(output_path) writes the file anew
ExportedRows(file, gdf) == gdf

\* create_visualization_layers, generate_map and export_shapefile
ExportShapefile ==
    /\ pc = "done"
    /\ chicken_zones_shp' =
          [exists |-> TRUE, rows |-> ExportedRows(chicken_zones_shp, results_gdf)]
    /\ pc' = "exported"
    /\ UNCHANGED <<land_use_df, parcels_gdf, buildings_gdf, residential_parcels_gdf,
                   non_residential_parcels_gdf, dwelling_buildings_gdf,
                   parcel_to_dwellings, parcel_to_has_multiunit, is_multiple_occupancy,
                   parcel_to_prohibited_buffers, parcel_to_buildings, results, idx,
                   results_gdf, columns>>
    /\ UNCHANGED download_vars

\* The script is started again on the same files: every name of main() and
\* of the functions it calls is a local of the new process, and the output
\* directory keeps what the earlier run wrote
Rerun ==
    /\ pc \in {"exported", "raised"}
    /\ pc' = "prepare_data"
    /\ residential_parcels_gdf' = <<>>
    /\ non_residential_parcels_gdf' = <<>>
    /\ dwelling_buildings_gdf' = <<>>
    /\ parcel_to_dwellings' = EmptyDict
    /\ parcel_to_has_multiunit' = EmptyDict
    /\ is_multiple_occupancy' = EmptyDict
    /\ parcel_to_prohibited_buffers' = EmptyDict
    /\ parcel_to_buildings' = EmptyDict
    /\ results' = <<>>
    /\ idx' = 0
    /\ results_gdf' = <<>>
    /\ UNCHANGED <<land_use_df, parcels_gdf, buildings_gdf, columns, chicken_zones_shp>>
    /\ UNCHANGED download_vars

(***************************************************************************)
(* download-data.py.  The data directory is a function from the names of   *)
(* the paths the script uses to what is stored there: "absent", "partial"  *)
(* (a file cut short, a directory missing members) or "complete".          *)
(***************************************************************************)
MaxRuns == 2

\* DATASETS.items(), in insertion order; extract_dir None is "None"
DATASETS ==
    << [name |-> "parcels", filename |-> "parcels.zip", extract_dir |-> "parcels"],
       [name |-> "land_use_codes", filename |-> "land_use_codes.csv", extract_dir |-> "None"],
       [name |-> "buildings", filename |-> "buildings.zip", extract_dir |-> "buildings"],
       [name |-> "buildings_use", filename |-> "buildings-use.csv", extract_dir |-> "None"],
       [name |-> "boundary", filename |-> "boundary.zip", extract_dir |-> "boundary"] >>

\* if extract_dir:
HasExtractDir(config) == config.extract_dir # "None"

\* filename.endswith(".zip")
EndsWithZip(filename) == filename \in {"parcels.zip", "buildings.zip", "boundary.zip"}

Paths ==
    {DATASETS[i].filename : i \in 1..Len(DATASETS)}
      \cup {DATASETS[i].extract_dir : i \in {j \in 1..Len(DATASETS) : HasExtractDir(DATASETS[j])}}

\* check_path of download_dataset
CheckPath(config) ==
    IF HasExtractDir(config) THEN config.extract_dir ELSE config.filename

\* check_path.exists()
Exists(path) == data_dir[path] # "absent"

\* the iteration of the loop of main() that is about to call download_dataset
InLoop == download_pc = "loop" /\ dataset_idx <= Len(DATASETS)

\* main() up to the loop
StartMain ==
    /\ download_pc \in {"idle", "end"}
    /\ run < MaxRuns
    /\ run' = run + 1
    /\ download_pc' = "loop"
    /\ dataset_idx' = 1
    /\ attempted' = <<>>
    /\ skipped' = {}
    /\ errors' = <<>>
    /\ UNCHANGED <<data_dir, completed>>
    /\ UNCHANGED map_vars

\* download_dataset returns at line 133
SkipExisting ==
    /\ InLoop
    /\ LET config == DATASETS[dataset_idx] IN
         /\ Exists(CheckPath(config))
         /\ attempted' = Append(attempted, config.name)
         /\ skipped' = skipped \cup {config.name}
    /\ dataset_idx' = dataset_idx + 1
    /\ UNCHANGED <<data_dir, download_pc, errors, completed, run>>
    /\ UNCHANGED map_vars

\* requests.get or raise_for_status raises: nothing is written
RequestRaises ==
    /\ InLoop
    /\ LET config == DATASETS[dataset_idx] IN
         /\ ~Exists(CheckPath(config))
         /\ attempted' = Append(attempted, config.name)
    /\ download_pc' = "except"
    /\ UNCHANGED <<data_dir, dataset_idx, skipped, errors, completed, run>>
    /\ UNCHANGED map_vars

\* open(output_path, "wb") has created the file when iter_content raises
StreamRaises ==
    /\ InLoop
    /\ LET config == DATASETS[dataset_idx] IN
         /\ ~Exists(CheckPath(config))
         /\ attempted' = Append(attempted, config.name)
         /\ data_dir' = [data_dir EXCEPT ![config.filename] = "partial"]
    /\ download_pc' = "except"
    /\ UNCHANGED <<dataset_idx, skipped, errors, completed, run>>
    /\ UNCHANGED map_vars

\* download_file returns and there is nothing to extract
DownloadOnly ==
    /\ InLoop
    /\ LET config == DATASETS[dataset_idx] IN
         /\ ~Exists(CheckPath(config))
         /\ ~(EndsWithZip(config.filename) /\ HasExtractDir(config))
         /\ attempted' = Append(attempted, config.name)
         /\ data_dir' = [data_dir EXCEPT ![config.filename] = "complete"]
         /\ completed' = completed \cup {config.name}
    /\ dataset_idx' = dataset_idx + 1
    /\ UNCHANGED <<download_pc, skipped, errors, run>>
    /\ UNCHANGED map_vars

\* final_dir.mkdir has run when ZipFile or extractall raises
ExtractRaises ==
    /\ InLoop
    /\ LET config == DATASETS[dataset_idx] IN
         /\ ~Exists(CheckPath(config))
         /\ EndsWithZip(config.filename) /\ HasExtractDir(config)
         /\ attempted' = Append(attempted, config.name)
         /\ data_dir' = [data_dir EXCEPT ![config.filename] = "complete",
                                          ![config.extract_dir] = "partial"]
    /\ download_pc' = "except"
    /\ UNCHANGED <<dataset_idx, skipped, errors, completed, run>>
    /\ UNCHANGED map_vars

\* download_file and extract_zip return: the archive is unlinked
DownloadAndExtract ==
    /\ InLoop
    /\ LET config == DATASETS[dataset_idx] IN
         /\ ~Exists(CheckPath(config))
         /\ EndsWithZip(config.filename) /\ HasExtractDir(config)
         /\ attempted' = Append(attempted, config.name)
         /\ data_dir' = [data_dir EXCEPT ![config.filename] = "absent",
                                          ![config.extract_dir] = "complete"]
         /\ completed' = completed \cup {config.name}
    /\ dataset_idx' = dataset_idx + 1
    /\ UNCHANGED <<download_pc, skipped, errors, run>>
    /\ UNCHANGED map_vars

\* Variant: the exception leaves main()
ExceptReraise ==
    /\ download_pc = "except"
    /\ download_pc' = "aborted"
    /\ UNCHANGED <<data_dir, dataset_idx, attempted, skipped, errors, completed, run>>
    /\ UNCHANGED map_vars

\* except Exception as e: print(...); continue
ExceptContinue ==
    /\ download_pc = "except"
    /\ errors' = Append(errors, DATASETS[dataset_idx].name)
    /\ dataset_idx' = dataset_idx + 1
    /\ download_pc' = "loop"
    /\ UNCHANGED <<data_dir, attempted, skipped, completed, run>>
    /\ UNCHANGED map_vars

\* the loop is exhausted: "All downloads complete!"
EndMain ==
    /\ download_pc = "loop"
    /\ dataset_idx > Len(DATASETS)
    /\ download_pc' = "end"
    /\ UNCHANGED <<data_dir, dataset_idx, attempted, skipped, errors, completed, run>>
    /\ UNCHANGED map_vars

\* The data directory of a fresh checkout, and the script not yet started
DownloadIdle ==
    /\ data_dir = [path \in Paths |-> "absent"]
    /\ download_pc = "idle"
    /\ dataset_idx = 0
    /\ attempted = <<>>
    /\ skipped = {}
    /\ errors = <<>>
    /\ completed = {}
    /\ run = 0

(***************************************************************************)
(* Inputs: the frames read_data and prepare_data hand to the pipeline      *)
(***************************************************************************)
ZR8 == <<"R","8">>

ZRSpace8 == <<"R"," ","8">>

ZCD == <<"C","D">>

ZPOS == <<"P","O","S">>

ZRTab8 == <<"R","\t","8">>

DescResidentialLow == <<"R","e","s","i","d","e","n","t","i","a","l"," ","L","o","w">>

DescMultiFamily == <<"M","U","L","T","I","-","F","A","M","I","L","Y"," ","R","E","S","I","D","E","N","T","I","A","L">>

DescCommercial == <<"C","o","m","m","e","r","c","i","a","l"," ","D","o","w","n","t","o","w","n">>

DescPresident == <<"P","r","e","s","i","d","e","n","t"," ","P","a","r","k">>

FixedLookup ==
    << [ZONING |-> ZR8, DESCRIPTION |-> DescResidentialLow],
       [ZONING |-> ZCD, DESCRIPTION |-> DescCommercial] >>

Footprints ==
    {Interval(a, b) : <<a, b>> \in
        {ab \in World \X World : ab[1] <= ab[2] /\ ab[2] - ab[1] + 1 <= MaxFootprint}}

UnitsValues == {<<>>} \cup {<<n>> : n \in 1..MaxUnits}

\* USE and UNITS as merged from buildings-use.csv: households of every unit
\* count, a dormitory recorded with one unit, and a building that is no dwelling
BuildingKinds ==
    {[Use |-> "Household", UNITS |-> n] : n \in UnitsValues}
      \cup {[Use |-> "Dormitory", UNITS |-> <<1>>], [Use |-> "Office", UNITS |-> <<>>]}

Building(id, kind, g, ok) ==
    [FACILITYID |-> id, Use |-> kind.Use, UNITS |-> kind.UNITS, geometry |-> g,
     valid |-> ok]

Parcel(id, z, g, ok) == [OBJECTID |-> id, ZONING |-> z, geometry |-> g, valid |-> ok]

\* Two adjacent parcels: the first from the left edge of the strip, the
\* second next to it and ending at the right edge or one cell short of it;
\* the land to the right of the second is in no parcel
Layouts == {l \in World \X World : l[1] < l[2] /\ l[2] >= NumCells - 2}

\* The names of main() and calculate_allowed_areas before they are bound
InitLocals ==
    /\ residential_parcels_gdf = <<>>
    /\ non_residential_parcels_gdf = <<>>
    /\ dwelling_buildings_gdf = <<>>
    /\ parcel_to_dwellings = EmptyDict
    /\ parcel_to_has_multiunit = EmptyDict
    /\ is_multiple_occupancy = EmptyDict
    /\ parcel_to_prohibited_buffers = EmptyDict
    /\ parcel_to_buildings = EmptyDict
    /\ results = <<>>
    /\ idx = 0
    /\ results_gdf = <<>>

InitPipeline ==
    /\ pc = "identify_residential_parcels"
    /\ InitLocals

\* The kinds in a fixed order: no dwelling, dormitory, households by units
KindRank(k) ==
    IF k.Use = "Office" THEN 0
    ELSE IF k.Use = "Dormitory" THEN 1
    ELSE IF k.UNITS = <<>> THEN 2
    ELSE 2 + k.UNITS[1]

\* Two buildings of every pair of kinds, the rows in the order of the kinds,
\* each of the two at every footprint
KindPairs == {kk \in BuildingKinds \X BuildingKinds : KindRank(kk[1]) <= KindRank(kk[2])}

\* Valid geometries of every shape under a fixed zoning table
InitGeometry ==
    /\ land_use_df = FixedLookup
    /\ \E l \in Layouts, z \in {ZR8, ZCD} :
          parcels_gdf = << Parcel(1, ZRSpace8, Interval(0, l[1]), TRUE),
                           Parcel(2, z, Interval(l[1] + 1, l[2]), TRUE) >>
    /\ \E kk \in KindPairs, g1 \in Footprints, g2 \in Footprints :
          buildings_gdf = << Building("F1", kk[1], g1, TRUE), Building("F2", kk[2], g2, TRUE) >>
    /\ InitPipeline

\* Zoning tables of every content over a fixed geometry
LookupRows ==
    [ZONING : {ZR8, ZRSpace8, ZCD},
     DESCRIPTION : {DescResidentialLow, DescMultiFamily, DescPresident, NaNStr}]

LookupTables == UNION {[1..n -> LookupRows] : n \in 0..MaxLookupRows}

ZoningFrames ==
    /\ land_use_df \in LookupTables
    /\ \E z1 \in {ZRSpace8, ZRTab8, ZCD, ZPOS, NaNStr}, z2 \in {ZR8, ZCD} :
          parcels_gdf = << Parcel(1, z1, Interval(0, 2), TRUE),
                           Parcel(2, z2, Interval(3, NumCells - 1), TRUE) >>
    /\ buildings_gdf =
          << Building("F1", [Use |-> "Household", UNITS |-> <<1>>], Interval(1, 1), TRUE),
             Building("F2", [Use |-> "Household", UNITS |-> <<1>>], Interval(4, 4), TRUE) >>

InitZoning == ZoningFrames /\ InitPipeline

\* Geometries that the overlay operations reject, over a fixed layout
GeometryErrorFrames ==
    /\ land_use_df = FixedLookup
    /\ \E v1 \in BOOLEAN, v2 \in BOOLEAN, z \in {ZR8, ZCD} :
          parcels_gdf = << Parcel(1, ZRSpace8, Interval(0, 2), v1),
                           Parcel(2, z, Interval(3, NumCells - 1), v2) >>
    /\ \E g1 \in Footprints, g2 \in Footprints, v1 \in BOOLEAN, v2 \in BOOLEAN :
          buildings_gdf =
             << Building("F1", [Use |-> "Household", UNITS |-> <<1>>], g1, v1),
                Building("F2", [Use |-> "Office", UNITS |-> <<>>], g2, v2) >>

InitGeometryError == GeometryErrorFrames /\ InitPipeline

\* The columns of the shapefiles and of buildings-use.csv as the city publishes them
CompleteColumns ==
    [parcels |-> {"OBJECTID", "ZONING", "geometry"},
     buildings |-> {"FACILITYID", "geometry"},
     buildings_use |-> UseColumns,
     boundary |-> {"geometry"}]

\* output/chicken_zones.shp before the first run
NoShapefile == [exists |-> FALSE, rows |-> <<>>]

\* main() from the classification on, over frames that prepare_data accepted
Init ==
    /\ InitGeometry \/ InitZoning \/ InitGeometryError
    /\ columns = CompleteColumns
    /\ chicken_zones_shp = NoShapefile
    /\ DownloadIdle

Next ==
    \/ IdentifyResidentialParcels
    \/ IdentifyDwellingBuildings
    \/ BuildLookups
    \/ ProcessParcel
    \/ ProcessParcelRaises
    \/ ReturnResultsRaises
    \/ ReturnResults

Spec == Init /\ [][Next]_vars

(***************************************************************************)
(* main() from prepare_data to the exported shapefile, run after run       *)
(***************************************************************************)
\* Frames in which any of the columns prepare_data needs may be absent
ColumnSets ==
    [parcels : {CompleteColumns.parcels, CompleteColumns.parcels \ {"geometry"}},
     buildings : SUBSET CompleteColumns.buildings,
     buildings_use : {UseColumns, UseColumns \ {"UUSE"}},
     boundary : SUBSET CompleteColumns.boundary]

SchemaFrames ==
    /\ land_use_df = FixedLookup
    /\ \E z \in {ZR8, ZCD} :
          parcels_gdf = << Parcel(1, ZRSpace8, Interval(0, 2), TRUE),
                           Parcel(2, z, Interval(3, NumCells - 1), TRUE) >>
    /\ \E g1 \in Footprints :
          buildings_gdf =
             << Building("F1", [Use |-> "Household", UNITS |-> <<1>>], g1, TRUE),
                Building("F2", [Use |-> "Office", UNITS |-> <<>>], Interval(4, 4), TRUE) >>

InitMain ==
    /\ \/ (ZoningFrames \/ GeometryErrorFrames) /\ columns = CompleteColumns
       \/ SchemaFrames /\ columns \in ColumnSets
    /\ pc = "prepare_data"
    /\ InitLocals
    /\ chicken_zones_shp = NoShapefile
    /\ DownloadIdle

NextMain ==
    \/ PrepareData
    \/ PrepareDataRaises
    \/ IdentifyResidentialParcels
    \/ IdentifyDwellingBuildings
    \/ BuildLookups
    \/ ProcessParcel
    \/ ProcessParcelRaises
    \/ ReturnResultsRaises
    \/ ReturnResults
    \/ ExportShapefile
    \/ Rerun

SpecMain == InitMain /\ [][NextMain]_vars

(***************************************************************************)
(* download-data.py, run after run, generate-map.py not running            *)
(***************************************************************************)
MapIdle ==
    /\ land_use_df = <<>>
    /\ parcels_gdf = <<>>
    /\ buildings_gdf = <<>>
    /\ pc = "idle"
    /\ InitLocals
    /\ columns = CompleteColumns
    /\ chicken_zones_shp = NoShapefile

InitDownload == MapIdle /\ DownloadIdle

\* The steps within one run of the script
RunSteps ==
    \/ SkipExisting
    \/ RequestRaises
    \/ StreamRaises
    \/ DownloadOnly
    \/ ExtractRaises
    \/ DownloadAndExtract
    \/ ExceptContinue
    \/ EndMain

NextDownload ==
    \/ StartMain
    \/ SkipExisting
    \/ RequestRaises
    \/ StreamRaises
    \/ DownloadOnly
    \/ ExtractRaises
    \/ DownloadAndExtract
    \/ ExceptContinue
    \/ EndMain

\* A started run takes its next step: every call returns or raises
SpecDownload == InitDownload /\ [][NextDownload]_vars /\ WF_vars(RunSteps)

(***************************************************************************)
(* Vocabulary of the properties, stated on the inputs and on the result    *)
(* rows, not on the lookups the code builds.                               *)
(***************************************************************************)
\* The area of a geometry, in cells
Area(g) == Cardinality(g)

\* The rows appended so far; results_gdf holds the same rows once returned
ResultRows == {results[k] : k \in 1..Len(results)}

Dwellings == {i \in Rows(buildings_gdf) : buildings_gdf[i].Use \in {"Household", "Dormitory"}}

Footprint(i) == buildings_gdf[i].geometry

\* The 200-foot zone of dwelling i
Zone(i) == {c \in World : \E x \in Footprint(i) : Abs(c - x) * CellFeet <= BufferFeet}

\* The dwellings wholly within region g
DwellingsOn(g) == {i \in Dwellings : Footprint(i) # {} /\ Footprint(i) \subseteq g}

\* The dwellings whose zone reaches region g
DwellingsNear(g) == {i \in Dwellings : Zone(i) \cap g # {}}

\* The buildings of any use whose footprint overlaps region g
BuildingsOver(g) == {i \in Rows(buildings_gdf) : Footprint(i) \cap g # {}}

FootprintsOver(g) == UNION {Footprint(i) : i \in BuildingsOver(g)}

Zones(ds) == UNION {Zone(i) : i \in ds}

\* Multiple occupancy as the specification defines it
MultiOccupied(g) ==
    \/ Cardinality({buildings_gdf[i].FACILITYID : i \in DwellingsOn(g)}) > 1
    \/ \E i \in DwellingsOn(g) : buildings_gdf[i].Use = "Dormitory"
    \/ \E i \in DwellingsOn(g) :
          buildings_gdf[i].UNITS # <<>> /\ buildings_gdf[i].UNITS[1] > 1

\* The parcel holds exactly one dwelling, a Household of one unit, and no
\* other dwelling stands within 200 feet of it
LoneHousehold(g) ==
    /\ Cardinality(DwellingsOn(g)) = 1
    /\ \A i \in DwellingsOn(g) :
          buildings_gdf[i].Use = "Household" /\ buildings_gdf[i].UNITS = <<1>>
    /\ DwellingsNear(g) = DwellingsOn(g)

(***************************************************************************)
(* C1: in every result row, allowed_geometry and prohibited_geometry       *)
(* partition the parcel: allowed lies inside the parcel, their union is    *)
(* the parcel, they share no area, and their areas add up to the parcel's. *)
(***************************************************************************)
C1_Partition ==
    \A r \in ResultRows :
        /\ r.allowed_geometry \subseteq r.geometry
        /\ r.allowed_geometry \cup r.prohibited_geometry = r.geometry
        /\ r.allowed_geometry \cap r.prohibited_geometry = {}
        /\ Area(r.allowed_geometry) + Area(r.prohibited_geometry) = Area(r.geometry)

\* A parcel split into a non-empty allowed and a non-empty prohibited part by
\* the zone of a dwelling that also covers land outside the parcel
C1_Witness ==
    \E r \in ResultRows :
        /\ r.allowed_geometry # {}
        /\ r.prohibited_geometry # {}
        /\ \E i \in DwellingsNear(r.geometry) \ DwellingsOn(r.geometry) :
              /\ ~(Zone(i) \subseteq r.geometry)
              /\ Zone(i) \cap r.prohibited_geometry # {}

(***************************************************************************)
(* C2: for a parcel with a dwelling wholly within it, allowed_geometry is  *)
(* the parcel less the selected zones less the footprints of all buildings *)
(* overlapping it; the selected zones are all zones reaching the parcel if *)
(* it is multiple-occupancy, and otherwise those but its own dwelling's.   *)
(***************************************************************************)
SelectedDwellings(g) ==
    IF MultiOccupied(g) THEN DwellingsNear(g) ELSE DwellingsNear(g) \ DwellingsOn(g)

C2_AllowedGeometry ==
    \A r \in ResultRows :
        DwellingsOn(r.geometry) # {} =>
            r.allowed_geometry =
                (r.geometry \ Zones(SelectedDwellings(r.geometry)))
                    \ FootprintsOver(r.geometry)

\* A parcel with a dwelling, a selected zone and a building that is not a
\* dwelling and lies partly outside it, and some allowed area left
C2_Witness ==
    \E r \in ResultRows :
        /\ DwellingsOn(r.geometry) # {}
        /\ SelectedDwellings(r.geometry) # {}
        /\ \E i \in BuildingsOver(r.geometry) \ Dwellings :
              ~(Footprint(i) \subseteq r.geometry)
        /\ r.allowed_geometry # {}

(***************************************************************************)
(* C3: a parcel with no dwelling wholly within it gets an empty            *)
(* allowed_geometry and its whole geometry as prohibited_geometry,         *)
(* whatever zones or other buildings reach it.                             *)
(***************************************************************************)
C3_NoDwelling ==
    \A r \in ResultRows :
        DwellingsOn(r.geometry) = {} =>
            r.allowed_geometry = {} /\ r.prohibited_geometry = r.geometry

\* A parcel without a dwelling on it that a zone reaches only in part and
\* that carries a building that is not a dwelling
C3_Witness ==
    \E r \in ResultRows :
        /\ DwellingsOn(r.geometry) = {}
        /\ \E i \in DwellingsNear(r.geometry) : ~(r.geometry \subseteq Zone(i))
        /\ BuildingsOver(r.geometry) \ Dwellings # {}
        /\ r.prohibited_geometry = r.geometry

(***************************************************************************)
(* C4: for a parcel whose only dwelling is a one-unit Household with no    *)
(* other dwelling within 200 feet, the dwelling's own zone is not          *)
(* subtracted: allowed is the parcel less the footprints overlapping it,   *)
(* prohibited is exactly those footprints' overlap with the parcel, and    *)
(* the areas are the parcel's area less the overlap, and the overlap.      *)
(***************************************************************************)
C4_LoneHousehold ==
    \A r \in ResultRows :
        LoneHousehold(r.geometry) =>
            /\ r.allowed_geometry = r.geometry \ FootprintsOver(r.geometry)
            /\ r.prohibited_geometry = r.geometry \cap FootprintsOver(r.geometry)
            /\ Area(r.allowed_geometry) =
                  Area(r.geometry) - Area(r.geometry \cap FootprintsOver(r.geometry))
            /\ Area(r.prohibited_geometry) = Area(r.geometry \cap FootprintsOver(r.geometry))

\* Such a parcel with the household's footprint strictly inside it: the
\* allowed area is the rest of the parcel, all of it within the own zone
C4_Witness ==
    \E r \in ResultRows :
        /\ LoneHousehold(r.geometry)
        /\ \E i \in DwellingsOn(r.geometry) :
              /\ FootprintsOver(r.geometry) = Footprint(i)
              /\ r.prohibited_geometry = Footprint(i)
              /\ r.allowed_geometry # {}
              /\ r.allowed_geometry \subseteq Zone(i)
              /\ Area(r.allowed_geometry) = Area(r.geometry) - Area(Footprint(i))

(***************************************************************************)
(* C5 as stated: for a parcel whose only dwelling is a one-unit Household  *)
(* with no other dwelling within 200 feet, allowed_geometry has strictly   *)
(* positive area whatever the shapes of the buildings on it.               *)
(***************************************************************************)
C5_AlwaysPositive ==
    \A r \in ResultRows :
        LoneHousehold(r.geometry) => Area(r.allowed_geometry) > 0

(***************************************************************************)
(* C5 amended: for such a parcel, allowed_geometry has strictly positive   *)
(* area exactly when the footprints of the buildings overlapping the       *)
(* parcel do not cover the whole parcel; when they do, it is empty.        *)
(***************************************************************************)
C5_PositiveUnlessCovered ==
    \A r \in ResultRows :
        LoneHousehold(r.geometry) =>
            (Area(r.allowed_geometry) > 0 <=> ~(r.geometry \subseteq FootprintsOver(r.geometry)))

\* Such a parcel covered by its household and a second building: nothing is allowed
C5_Witness ==
    \E r \in ResultRows :
        /\ LoneHousehold(r.geometry)
        /\ r.geometry \subseteq FootprintsOver(r.geometry)
        /\ BuildingsOver(r.geometry) \ Dwellings # {}
        /\ r.allowed_geometry = {}

(***************************************************************************)
(* C6: for a multiple-occupancy parcel, allowed_geometry is disjoint from  *)
(* the zone of every dwelling whose zone reaches the parcel, the dwellings *)
(* standing on the parcel included.                                        *)
(***************************************************************************)
C6_MultiOccupancyZones ==
    \A r \in ResultRows :
        (DwellingsOn(r.geometry) # {} /\ MultiOccupied(r.geometry)) =>
            \A i \in DwellingsNear(r.geometry) : r.allowed_geometry \cap Zone(i) = {}

\* A parcel with two one-unit Households on it and allowed area left beyond
\* both of their zones
C6_Witness ==
    \E r \in ResultRows :
        /\ Cardinality(DwellingsOn(r.geometry)) = 2
        /\ \A i \in DwellingsOn(r.geometry) :
              buildings_gdf[i].Use = "Household" /\ buildings_gdf[i].UNITS = <<1>>
        /\ r.allowed_geometry # {}
        /\ r.allowed_geometry = r.geometry \ Zones(DwellingsOn(r.geometry))

(***************************************************************************)
(* C7: for every parcel with a dwelling wholly within it, the flag that    *)
(* selects the buffers is true exactly when the parcel holds more than one *)
(* distinct dwelling FACILITYID, or a Dormitory, or a dwelling with        *)
(* UNITS > 1 (missing UNITS is not > 1); so the buffer of a sole Dormitory *)
(* with UNITS = 1 is subtracted from its parcel.                           *)
(***************************************************************************)
C7_OccupancyFlag ==
    /\ pc \in {"parcel_loop", "done", "raised"} =>
          \A j \in Rows(residential_parcels_gdf) :
              LET p == residential_parcels_gdf[j] IN
                DwellingsOn(p.geometry) # {} =>
                    /\ p.OBJECTID \in DOMAIN is_multiple_occupancy
                    /\ is_multiple_occupancy[p.OBJECTID] <=> MultiOccupied(p.geometry)
    /\ \A r \in ResultRows :
          \A i \in DwellingsOn(r.geometry) :
              (DwellingsOn(r.geometry) = {i} /\ buildings_gdf[i].Use = "Dormitory"
                  /\ buildings_gdf[i].UNITS = <<1>>)
                => r.allowed_geometry \cap Zone(i) = {}

\* A parcel whose sole dwelling is a Dormitory recorded with one unit, flagged
\* multiple-occupancy, with allowed area left only beyond the dormitory's zone
C7_Witness ==
    \E r \in ResultRows :
        \E i \in DwellingsOn(r.geometry) :
            /\ DwellingsOn(r.geometry) = {i}
            /\ DwellingsNear(r.geometry) = {i}
            /\ buildings_gdf[i].Use = "Dormitory"
            /\ buildings_gdf[i].UNITS = <<1>>
            /\ is_multiple_occupancy[r.parcel_id]
            /\ r.allowed_geometry # {}
            /\ r.allowed_geometry = r.geometry \ Zone(i)

(***************************************************************************)
(* C8: for a parcel with a dwelling that is not multiple-occupancy,        *)
(* allowed_geometry is disjoint from the zone of every dwelling that is    *)
(* not wholly within the parcel and whose zone reaches it, and the zone of *)
(* the parcel's own dwelling takes nothing away: land of the parcel in no  *)
(* other dwelling's zone and under no building is allowed.                 *)
(***************************************************************************)
C8_NeighbourZones ==
    \A r \in ResultRows :
        (DwellingsOn(r.geometry) # {} /\ ~MultiOccupied(r.geometry)) =>
            /\ \A i \in DwellingsNear(r.geometry) \ DwellingsOn(r.geometry) :
                  r.allowed_geometry \cap Zone(i) = {}
            /\ \A c \in r.geometry :
                  (/\ c \in Zones(DwellingsOn(r.geometry))
                   /\ c \notin Zones(Dwellings \ DwellingsOn(r.geometry))
                   /\ c \notin FootprintsOver(r.geometry))
                    => c \in r.allowed_geometry

\* Two adjacent parcels, each with one one-unit Household, less than 200 feet
\* apart: each loses open land to the neighbour's zone and keeps open land
\* inside its own zone
C8_Witness ==
    \E r1 \in ResultRows, r2 \in ResultRows :
        /\ r1.parcel_id # r2.parcel_id
        /\ \A r \in {r1, r2} :
              /\ Cardinality(DwellingsOn(r.geometry)) = 1
              /\ ~MultiOccupied(r.geometry)
              /\ \E i \in DwellingsNear(r.geometry) \ DwellingsOn(r.geometry) :
                    (r.geometry \cap Zone(i)) \ FootprintsOver(r.geometry) # {}
              /\ r.allowed_geometry \cap Zones(DwellingsOn(r.geometry)) # {}

(***************************************************************************)
(* C9: when the geometric computation of one parcel fails on an invalid    *)
(* geometry, the failure stays with that parcel: however the run ends,     *)
(* every residential parcel whose own computation does not fail has its    *)
(* row in the returned results.                                            *)
(***************************************************************************)
C9_FailureConfined ==
    pc \in {"done", "raised"} =>
        \A j \in Rows(residential_parcels_gdf) :
            ~OverlayRaises(residential_parcels_gdf[j]) =>
                \E k \in Rows(results_gdf) :
                    results_gdf[k].parcel_id = residential_parcels_gdf[j].OBJECTID

(***************************************************************************)
(* C10: every input parcel is classified as exactly one of residential and *)
(* non-residential, and the returned results hold exactly one row for      *)
(* every residential parcel and none for a non-residential one.            *)
(***************************************************************************)
RowsOf(df, id) == {j \in Rows(df) : df[j].OBJECTID = id}

C10_OneResultPerParcel ==
    pc = "done" =>
        \A i \in Rows(parcels_gdf) :
            LET id == parcels_gdf[i].OBJECTID
                is_residential == RowsOf(residential_parcels_gdf, id) # {}
                is_non_residential == RowsOf(non_residential_parcels_gdf, id) # {}
                rows == {k \in Rows(results_gdf) : results_gdf[k].parcel_id = id}
            IN  /\ is_residential # is_non_residential
                /\ is_residential => Cardinality(rows) = 1
                /\ is_non_residential => rows = {}

(***************************************************************************)
(* C11: a parcel whose zoning code matches no row of the zoning lookup     *)
(* table is classified non-residential, once, and never residential; the   *)
(* run does not fail on it, and no result row is ever produced for it.     *)
(***************************************************************************)
\* A zoning code with its space characters taken out
RECURSIVE DropSpaces(_)
DropSpaces(s) ==
    IF s = <<>> THEN <<>>
    ELSE IF Head(s) = " " THEN DropSpaces(Tail(s))
    ELSE <<Head(s)>> \o DropSpaces(Tail(s))

\* Two codes that are both present and equal up to spaces
CodesMatch(a, b) == a # NaNStr /\ b # NaNStr /\ DropSpaces(a) = DropSpaces(b)

MatchedRows(p) == {k \in Rows(land_use_df) : CodesMatch(p.ZONING, land_use_df[k].ZONING)}

\* identify_residential_parcels has returned
Classified ==
    /\ pc \notin {"prepare_data", "identify_residential_parcels"}
    /\ ~(pc = "raised" /\ idx = 0)

C11_UnmatchedNonResidential ==
    Classified =>
        \A i \in Rows(parcels_gdf) :
            LET p == parcels_gdf[i] IN
              MatchedRows(p) = {} =>
                  /\ Cardinality(RowsOf(non_residential_parcels_gdf, p.OBJECTID)) = 1
                  /\ RowsOf(residential_parcels_gdf, p.OBJECTID) = {}
                  /\ \A r \in ResultRows : r.parcel_id # p.OBJECTID
                  /\ \A k \in Rows(results_gdf) : results_gdf[k].parcel_id # p.OBJECTID
                  /\ pc = "raised" =>
                        \A j \in Rows(residential_parcels_gdf) :
                            j = idx => residential_parcels_gdf[j].OBJECTID # p.OBJECTID

\* A finished run over a parcel zoned "POS", a code the table does not hold,
\* next to a parcel the table makes residential: one result row, the other's
C11_Witness ==
    /\ pc = "done"
    /\ land_use_df # <<>>
    /\ \E i \in Rows(parcels_gdf) :
          /\ parcels_gdf[i].ZONING = ZPOS
          /\ MatchedRows(parcels_gdf[i]) = {}
          /\ RowsOf(non_residential_parcels_gdf, parcels_gdf[i].OBJECTID) # {}
          /\ Len(results_gdf) = 1
          /\ results_gdf[1].parcel_id # parcels_gdf[i].OBJECTID

MissingRequiredField ==
    \/ "geometry" \notin columns.parcels
    \/ "geometry" \notin columns.buildings
    \/ "FACILITYID" \notin columns.buildings
    \/ "UUSE" \notin columns.buildings_use /\ "USE" \notin columns.buildings
    \/ "geometry" \notin columns.boundary

C13_SchemaError ==
    MissingRequiredField =>
        /\ pc \in {"prepare_data", "raised"}
        /\ pc = "prepare_data" => (ENABLED PrepareDataRaises /\ ~ENABLED PrepareData)
        /\ residential_parcels_gdf = <<>>
        /\ non_residential_parcels_gdf = <<>>
        /\ dwelling_buildings_gdf = <<>>
        /\ results = <<>>
        /\ results_gdf = <<>>
        /\ ~chicken_zones_shp.exists

\* A run that has ended on buildings without FACILITYID, every other field present
C13_Witness ==
    /\ pc = "raised"
    /\ columns.buildings = {"geometry"}
    /\ columns.parcels = CompleteColumns.parcels
    /\ columns.buildings_use = UseColumns
    /\ columns.boundary = {"geometry"}
    /\ parcels_gdf # <<>>
    /\ results_gdf = <<>>

(***************************************************************************)
(* C14: a dwelling whose footprint overlaps a parcel without lying wholly  *)
(* within it does not belong to that parcel: it is not among the parcel's  *)
(* dwellings, the parcel's occupancy flag is that of the dwellings wholly  *)
(* within it, a parcel with no other dwelling is entirely prohibited, and  *)
(* on a parcel with a dwelling of its own the straddling dwelling's zone   *)
(* is always subtracted.                                                   *)
(***************************************************************************)
Straddlers(g) == {i \in Dwellings : Footprint(i) \cap g # {} /\ ~(Footprint(i) \subseteq g)}

C14_StraddlingDwelling ==
    /\ (pc \in {"parcel_loop", "done"} \/ (pc = "raised" /\ idx > 0)) =>
          \A j \in Rows(residential_parcels_gdf) :
              LET p == residential_parcels_gdf[j]
                  own == Get(parcel_to_dwellings, p.OBJECTID, {})
              IN  Straddlers(p.geometry) # {} =>
                    /\ own = {buildings_gdf[i].FACILITYID : i \in DwellingsOn(p.geometry)}
                    /\ \A i \in Straddlers(p.geometry) : buildings_gdf[i].FACILITYID \notin own
                    /\ DwellingsOn(p.geometry) # {} =>
                          (is_multiple_occupancy[p.OBJECTID] <=> MultiOccupied(p.geometry))
    /\ \A r \in ResultRows :
          /\ (DwellingsOn(r.geometry) = {} /\ Straddlers(r.geometry) # {}) =>
                (r.allowed_geometry = {} /\ r.prohibited_geometry = r.geometry)
          /\ DwellingsOn(r.geometry) # {} =>
                \A i \in Straddlers(r.geometry) : r.allowed_geometry \cap Zone(i) = {}

\* A parcel with a one-unit Household of its own and a Dormitory across its
\* boundary: the flag is off, land inside the own zone is allowed, none
\* inside the dormitory's; and the neighbouring parcel, which the dormitory
\* also straddles and which has no other dwelling, is entirely prohibited
C14_Witness ==
    \E r \in ResultRows, q \in ResultRows :
        \E i \in DwellingsOn(r.geometry), k \in Straddlers(r.geometry) :
            /\ DwellingsOn(r.geometry) = {i}
            /\ buildings_gdf[i].Use = "Household" /\ buildings_gdf[i].UNITS = <<1>>
            /\ buildings_gdf[k].Use = "Dormitory"
            /\ ~is_multiple_occupancy[r.parcel_id]
            /\ r.allowed_geometry \cap Zone(i) # {}
            /\ r.allowed_geometry \cap Zone(k) = {}
            /\ q.parcel_id # r.parcel_id
            /\ k \in Straddlers(q.geometry)
            /\ DwellingsOn(q.geometry) = {}
            /\ q.prohibited_geometry = q.geometry

(***************************************************************************)
(* C15 as stated: a parcel is classified residential exactly when some     *)
(* lookup row whose code equals the parcel's code, whitespace removed from *)
(* both, has a description containing "residential" in any letter case.    *)
(***************************************************************************)
Whitespace == {" ", "\t", "\n", "\r"}

RECURSIVE DropWhitespace(_)
DropWhitespace(s) ==
    IF s = <<>> THEN <<>>
    ELSE IF Head(s) \in Whitespace THEN DropWhitespace(Tail(s))
    ELSE <<Head(s)>> \o DropWhitespace(Tail(s))

SameLetter(a, b) ==
    \/ a = b
    \/ a \in DOMAIN UpperToLower /\ UpperToLower[a] = b
    \/ b \in DOMAIN UpperToLower /\ UpperToLower[b] = a

\* The description is present and holds the word in some letter case
SaysResidential(d) ==
    /\ d # NaNStr
    /\ \E i \in 0..(Len(d) - Len(Residential)) :
          \A j \in 1..Len(Residential) : SameLetter(d[i + j], Residential[j])

IsResidential(p) == RowsOf(residential_parcels_gdf, p.OBJECTID) # {}

IsNonResidential(p) == RowsOf(non_residential_parcels_gdf, p.OBJECTID) # {}

C15_WhitespaceMatch ==
    Classified =>
        \A n \in Rows(parcels_gdf) :
            LET p == parcels_gdf[n] IN
              IsResidential(p) <=>
                  \E k \in Rows(land_use_df) :
                      /\ p.ZONING # NaNStr
                      /\ DropWhitespace(p.ZONING) = DropWhitespace(land_use_df[k].ZONING)
                      /\ SaysResidential(land_use_df[k].DESCRIPTION)

(***************************************************************************)
(* C15 amended: a parcel is classified residential exactly when some       *)
(* lookup row whose code equals the parcel's code, the space characters    *)
(* removed from both, has a description containing "residential" in any    *)
(* letter case; it is classified non-residential exactly when no row       *)
(* matches or some matching row has no such description.                   *)
(***************************************************************************)
C15_SpaceMatch ==
    Classified =>
        \A n \in Rows(parcels_gdf) :
            LET p == parcels_gdf[n] IN
              /\ IsResidential(p) <=>
                    \E k \in MatchedRows(p) : SaysResidential(land_use_df[k].DESCRIPTION)
              /\ IsNonResidential(p) <=>
                    \/ MatchedRows(p) = {}
                    \/ \E k \in MatchedRows(p) : ~SaysResidential(land_use_df[k].DESCRIPTION)

\* A parcel zoned "R 8" made residential by the row "R8" described in capitals,
\* next to a parcel whose row is described "President Park" and that is not
C15_Witness ==
    /\ Classified
    /\ \E k \in Rows(land_use_df) :
          /\ land_use_df[k].ZONING = ZR8
          /\ land_use_df[k].DESCRIPTION = DescMultiFamily
    /\ \E k \in Rows(land_use_df) :
          /\ land_use_df[k].ZONING = ZCD
          /\ land_use_df[k].DESCRIPTION = DescPresident
    /\ \E n \in Rows(parcels_gdf) :
          parcels_gdf[n].ZONING = ZCD /\ ~IsResidential(parcels_gdf[n])
    /\ \E n \in Rows(parcels_gdf) :
          /\ parcels_gdf[n].ZONING = ZRSpace8
          /\ IsResidential(parcels_gdf[n])
          /\ ~IsNonResidential(parcels_gdf[n])

(***************************************************************************)
(* C16: in every run of the download script, a dataset is skipped as       *)
(* already existing only if this or an earlier run has downloaded it in    *)
(* full and, for an archive, extracted it; a dataset whose attempt failed  *)
(* part-way is therefore downloaded again by the next run.                 *)
(***************************************************************************)
C16_SkipOnlyIfComplete == \A name \in skipped : name \in completed

(***************************************************************************)
(* C17: in every run of the download script the datasets are attempted     *)
(* once each in the order of DATASETS; an exception of download_dataset is *)
(* followed by the report of that dataset's error and the next dataset; at *)
(* the end every dataset was skipped, reported as failed or is stored in   *)
(* full; and a run that has entered the loop reaches its end.              *)
(***************************************************************************)
DatasetNames == [i \in 1..Len(DATASETS) |-> DATASETS[i].name]

Reported == {errors[i] : i \in 1..Len(errors)}

AttemptedInOrder ==
    /\ download_pc = "loop" => attempted = SubSeq(DatasetNames, 1, dataset_idx - 1)
    /\ download_pc = "except" => attempted = SubSeq(DatasetNames, 1, dataset_idx)
    /\ download_pc = "end" =>
          /\ attempted = DatasetNames
          /\ \A i \in 1..Len(DATASETS) :
                \/ DATASETS[i].name \in skipped
                \/ DATASETS[i].name \in Reported
                \/ data_dir[CheckPath(DATASETS[i])] = "complete"

ErrorReportedThenNext ==
    download_pc = "except" =>
        /\ errors' = Append(errors, DATASETS[dataset_idx].name)
        /\ dataset_idx' = dataset_idx + 1
        /\ download_pc' = "loop"

C17_EveryDatasetAttempted ==
    /\ []AttemptedInOrder
    /\ [][ErrorReportedThenNext]_vars
    /\ (download_pc = "loop") ~> (download_pc = "end")

\* A finished run in which the first two datasets failed, both were
\* reported, and the last dataset was still downloaded and extracted
C17_Witness ==
    /\ download_pc = "end"
    /\ attempted = DatasetNames
    /\ Len(errors) >= 2
    /\ errors[1] = "parcels"
    /\ errors[2] = "land_use_codes"
    /\ "boundary" \in completed
    /\ data_dir["boundary"] = "complete"

====
